---- MODULE Spec2Model ----
(***************************************************************************)
(* A model of the quote store, the configuration table, the smart quote    *)
(* calculator, the VIN scanner, the plate lookup and the work timer of the  *)
(* mobile mechanic service app.                                            *)
(*                                                                         *)
(*   MockAppStore      src/customer-bot-test.ts        quotes, updateQuote *)
(*   configRouter      src/unnamed/part_004            configStorage       *)
(*   generateSmartQuote src/unnamed/part_008           the calculator      *)
(*   validateVin       src/vin-scan-validator-test.ts  the VIN format      *)
(*   decodeVin         src/customer-bot-test.ts        MockVinScanner      *)
(*   MockWorkTimer     src/unnamed/part_006            the work timer      *)
(*   decodePlateToVIN  utils/vin/fromPlate (absent)    the plate lookup    *)
(*                                                                         *)
(* Time is counted in seconds.  Money and hours that the code holds in     *)
(* floating point are held here as exact fractions <<num, den>>.           *)
(***************************************************************************)
EXTENDS Integers, Sequences, FiniteSets, TLC

VARIABLES
  now,        \* the clock read by Date.now() / new Date()
  quotes,     \* MockAppStore.quotes: the stored quote objects, in push order
  lastCall,   \* the latest updateQuote call: its arguments and what it met
  configStorage, \* the Map, as its entries in insertion order
  resetPc,    \* position of the running reset handler (0: none running)
  preTable,   \* configStorage as it was when the running handler began
  lastRead,   \* what the latest getAll returned, beside the table around it
  lastOp,     \* the latest config handler that ran to its end
  options,    \* the QuoteOptions handed to generateSmartQuote
  result,     \* what generateSmartQuote returned (or that it threw)
  vin,        \* the VIN handed to the scanner, as its characters
  vehicleType, \* the vehicle type handed over with it
  vinResult,  \* what the latest VIN function returned (or that it threw)
  plate,      \* the license plate handed to the plate lookup, as characters
  jurisdiction, \* the state handed over with it
  plateResult, \* what the latest plate function returned
  timeData,   \* MockWorkTimer.timeData
  currentTime, \* MockWorkTimer.currentTime: seconds the interval has counted
  intervalId  \* MockWorkTimer.intervalId: TRUE while an interval is set

vars == <<now, quotes, lastCall, configStorage, resetPc, preTable, lastRead,
          lastOp, options, result, vin, vehicleType, vinResult, plate,
          jurisdiction, plateResult, timeData, currentTime, intervalId>>

storeVars == <<now, quotes, lastCall>>
configVars == <<configStorage, resetPc, preTable, lastRead, lastOp>>
quoteVars == <<options, result>>
vinVars == <<vin, vehicleType, vinResult>>
plateVars == <<plate, jurisdiction, plateResult>>
timerVars == <<timeData, currentTime, intervalId>>

(***************************************************************************)
(* Bounds of the model.                                                    *)
(***************************************************************************)
MaxQuotes == 2
MaxTicks == 1
MaxUpdates == 2
MaxYears == 1
MaxTimerSeconds == 4

(***************************************************************************)
(* Exact fractions for the code's floating point numbers.                  *)
(***************************************************************************)
Frac(n, d) == <<n, d>>

Times(x, n, d) == <<x[1] * n, x[2] * d>>

Plus(x, y) == <<x[1] * y[2] + y[1] * x[2], x[2] * y[2]>>

\* Math.round: the nearest integer, a half rounding up.
MathRound(x) == (2 * x[1] + x[2]) \div (2 * x[2])

RECURSIVE SumPrices(_)
SumPrices(parts) ==
  IF parts = <<>> THEN 0 ELSE Head(parts).price + SumPrices(Tail(parts))

(***************************************************************************)
(* SERVICE_PRICING                                                         *)
(***************************************************************************)
ServiceTypes == {"oil_change", "brake_service", "engine_diagnostic"}

SERVICE_PRICING ==
  [s \in ServiceTypes |->
     CASE s = "oil_change" ->
            [basePrice |-> 45, laborRate |-> 75, estimatedHours |-> Frac(1, 2),
             commonParts |-> << [name |-> "Conventional Oil (5qt)", price |-> 25],
                                [name |-> "Synthetic Oil (5qt)", price |-> 45],
                                [name |-> "Oil Filter", price |-> 15] >>,
             priceRange |-> [min |-> 75, max |-> 95]]
       [] s = "brake_service" ->
            [basePrice |-> 150, laborRate |-> 85, estimatedHours |-> Frac(2, 1),
             commonParts |-> << [name |-> "Brake Pads (Front)", price |-> 80],
                                [name |-> "Brake Pads (Rear)", price |-> 70],
                                [name |-> "Brake Rotors (Pair)", price |-> 120],
                                [name |-> "Brake Fluid", price |-> 15] >>,
             priceRange |-> [min |-> 150, max |-> 400]]
       [] s = "engine_diagnostic" ->
            [basePrice |-> 100, laborRate |-> 85, estimatedHours |-> Frac(3, 2),
             commonParts |-> << [name |-> "Diagnostic Fee", price |-> 100],
                                [name |-> "Computer Scan", price |-> 50] >>,
             priceRange |-> [min |-> 100, max |-> 250]]]

(***************************************************************************)
(* generateSmartQuote(serviceRequestId, options)                           *)
(*                                                                         *)
(* An optional field of the options is a sequence: <<>> when it is not     *)
(* given, <<v>> when it is.  mileage and discountPercent are 0 when not    *)
(* given: the code tests them for truthiness.  travelDistanceMiles is the  *)
(* distance a caller hands over with the options; the code reads no such   *)
(* field.                                                                  *)
(***************************************************************************)
Given(opt) == opt # <<>>

The(opt) == opt[1]

\* new Date().getFullYear()
CurrentYear == 2025

\* const pricing = SERVICE_PRICING[options.serviceType]: undefined for a key
\* the table does not hold, and the next line reads a property of it.
PricingMissing(o) == o.serviceType \notin DOMAIN SERVICE_PRICING

\* options.customLaborHours || pricing.estimatedHours
BaseLaborHours(o, pricing) ==
  IF Given(o.customLaborHours) /\ The(o.customLaborHours) # 0
  THEN Frac(The(o.customLaborHours), 1)
  ELSE pricing.estimatedHours

\* The two confidence tests are separate if statements.
DiagnosisHours(o, h) ==
  IF ~Given(o.aiDiagnosis) THEN h
  ELSE LET d == The(o.aiDiagnosis)
           h1 == IF d.confidence = "low" \/ d.diagnosticSteps > 3
                 THEN Times(h, 6, 5) ELSE h
       IN  IF d.confidence = "high" THEN Times(h1, 9, 10) ELSE h1

DiagnosisRate(o, r) ==
  IF Given(o.aiDiagnosis) /\ The(o.aiDiagnosis).urgencyLevel = "emergency"
  THEN Times(r, 3, 2) ELSE r

VehicleHours(o, h) ==
  IF ~Given(o.vehicle) THEN h
  ELSE LET v == The(o.vehicle)
           vehicleAge == CurrentYear - v.year
           h1 == IF vehicleAge > 15 THEN Times(h, 13, 10)
                 ELSE IF vehicleAge > 10 THEN Times(h, 23, 20)
                 ELSE h
       IN  IF v.mileage # 0 /\ v.mileage > 150000 THEN Times(h1, 11, 10)
           ELSE h1

\* mockDistance stands for Math.random() * 20, drawn by the caller of the
\* model in whole miles.
travelFee(o) ==
  IF ~o.location THEN 0
  ELSE IF o.mockDistance > 10 THEN 25 + (o.mockDistance - 10) * 2
  ELSE 25

urgencyMultipliers(u) ==
  CASE u = "low" -> Frac(19, 20)
    [] u = "medium" -> Frac(11, 10)
    [] u = "high" -> Frac(5, 4)
    [] u = "emergency" -> Frac(3, 2)
    [] OTHER -> Frac(1, 1)

laborHours(o, pricing) ==
  VehicleHours(o, DiagnosisHours(o, BaseLaborHours(o, pricing)))

laborRate(o, pricing) ==
  LET m == urgencyMultipliers(o.urgency)
  IN  Times(DiagnosisRate(o, Frac(pricing.laborRate, 1)), m[1], m[2])

laborCost(o, pricing) ==
  LET h == laborHours(o, pricing)
      r == laborRate(o, pricing)
  IN  MathRound(Times(h, r[1], r[2]))

\* A lookup that charges the entry's basePrice for a name it does not find.
PartPriceOrBasePrice(pricing, partName) ==
  LET hits == SelectSeq(pricing.commonParts, LAMBDA p : p.name = partName)
  IN  IF hits = <<>> THEN pricing.basePrice ELSE Head(hits).price

\* pricing.commonParts.find(p => p.name === partName)?.price || 0
PartPrice(pricing, partName) ==
  LET hits == SelectSeq(pricing.commonParts, LAMBDA p : p.name = partName)
  IN  IF hits = <<>> THEN 0 ELSE Head(hits).price

RECURSIVE SelectedPartsCost(_, _)
SelectedPartsCost(pricing, names) ==
  IF names = <<>> THEN 0
  ELSE PartPrice(pricing, Head(names)) + SelectedPartsCost(pricing, Tail(names))

BasePartsCost(o, pricing) ==
  IF Len(o.selectedParts) > 0
  THEN SelectedPartsCost(pricing, o.selectedParts)
  ELSE IF Given(o.aiDiagnosis) /\ Given(The(o.aiDiagnosis).estimatedCost)
  THEN LET e == The(The(o.aiDiagnosis).estimatedCost)
       IN  MathRound(Frac(e.min + e.max, 2))
  ELSE MathRound(Frac(SumPrices(pricing.commonParts), Len(pricing.commonParts)))

luxuryBrands == {"BMW", "Mercedes", "Audi", "Lexus", "Acura", "Infiniti", "Cadillac"}

importBrands == {"Toyota", "Honda", "Nissan", "Subaru", "Mazda", "Mitsubishi"}

\* The vehicle-specific parts markup.
PartsMarkup(o, p0) ==
  LET p1 == IF Given(o.vehicle) /\ The(o.vehicle).make \in luxuryBrands
            THEN Times(p0, 13, 10) ELSE p0
  IN  IF Given(o.vehicle) /\ The(o.vehicle).make \in importBrands
      THEN Times(p1, 11, 10) ELSE p1

partsCost(o, pricing) == PartsMarkup(o, Frac(BasePartsCost(o, pricing), 1))

subtotal(o, pricing) ==
  LET s == Plus(Plus(Frac(laborCost(o, pricing), 1), partsCost(o, pricing)),
                Frac(travelFee(o), 1))
  IN  IF o.discountPercent # 0 /\ o.discountPercent > 0
      THEN Frac(MathRound(Times(s, 100 - o.discountPercent, 100)), 1)
      ELSE s

\* validUntil: new Date(Date.now() + 7 * 24 * 60 * 60 * 1000), in seconds
ValiditySeconds == 604800

\* options.serviceType.replace('_', ' '): the first underscore only.
ReplaceUnderscore(serviceType) ==
  CASE serviceType = "oil_change" -> "oil change"
    [] serviceType = "brake_service" -> "brake service"
    [] serviceType = "engine_diagnostic" -> "engine diagnostic"
    [] serviceType = "motorcycle_oil_change" -> "motorcycle oil_change"
    [] OTHER -> serviceType

\* The returned quote; id is Date.now().toString().
BuildQuote(serviceRequestId, o, t) ==
  LET pricing == SERVICE_PRICING[o.serviceType]
  IN  [id |-> t,
       serviceRequestId |-> serviceRequestId,
       description |-> <<"Professional", ReplaceUnderscore(o.serviceType),
                         "service including comprehensive inspection">>,
       laborCost |-> laborCost(o, pricing),
       partsCost |-> partsCost(o, pricing),
       travelCost |-> travelFee(o),
       totalCost |-> MathRound(subtotal(o, pricing)),
       estimatedDuration |-> laborHours(o, pricing),
       validUntil |-> t + ValiditySeconds,
       status |-> "pending"]

generateSmartQuote(serviceRequestId, o, t) ==
  IF PricingMissing(o) THEN [kind |-> "TypeError"]
  ELSE [kind |-> "quote", quote |-> BuildQuote(serviceRequestId, o, t)]

(***************************************************************************)
(* MockQuoteDispatcher.generateQuote(serviceRequestId, vinData, serviceType)*)
(***************************************************************************)
MappedServiceType(serviceType) ==
  LET mapped == IF serviceType = "oil-change" THEN "oil_change" ELSE serviceType
  IN  IF mapped \notin DOMAIN SERVICE_PRICING THEN "oil_change" ELSE mapped

DispatcherOptions(vinData, serviceType, mockDistance) ==
  [serviceType |-> MappedServiceType(serviceType),
   urgency |-> "medium",
   customLaborHours |-> <<>>,
   aiDiagnosis |-> <<>>,
   vehicle |-> <<[make |-> vinData.make, year |-> vinData.year, mileage |-> 15000]>>,
   location |-> TRUE,
   travelDistanceMiles |-> <<>>,
   mockDistance |-> mockDistance,
   selectedParts |-> <<>>,
   discountPercent |-> 0]

DispatcherGenerateQuote(serviceRequestId, vinData, serviceType, mockDistance, t) ==
  generateSmartQuote(serviceRequestId,
                     DispatcherOptions(vinData, serviceType, mockDistance), t)

(***************************************************************************)
(* MockAppStore: the quotes and updateQuote.                               *)
(*                                                                         *)
(* A stored quote is an object; its identity is its position in the list.  *)
(* An update is a Partial<Quote>: a function on some of the field names.   *)
(***************************************************************************)
Statuses ==
  {"pending", "accepted", "deposit_paid", "paid", "rejected", "expired"}

\* Object.assign, but a payment asked of a quote that is neither deposit_paid
\* nor paid is booked as its deposit.
AssignPaymentAdvances(quote, updates) ==
  [f \in DOMAIN quote \cup DOMAIN updates |->
     IF f \notin DOMAIN updates THEN quote[f]
     ELSE IF /\ f = "status"
             /\ updates[f] = "paid"
             /\ quote.status \notin {"deposit_paid", "paid"}
          THEN "deposit_paid"
          ELSE updates[f]]

\* Object.assign(quote, updates)
Assign(quote, updates) ==
  [f \in DOMAIN quote \cup DOMAIN updates |->
     IF f \in DOMAIN updates THEN updates[f] ELSE quote[f]]

\* this.quotes.find(q => q.id === id): the position of the first match, 0 for
\* undefined.
FindQuote(qs, id) ==
  IF \E i \in 1..Len(qs) : qs[i].id = id
  THEN CHOOSE i \in 1..Len(qs) :
         qs[i].id = id /\ \A j \in 1..(i - 1) : qs[j].id # id
  ELSE 0

\* The updates the callers build, at time t.
UpdateShapes(t) ==
  {[status |-> s] : s \in Statuses}
    \cup {[status |-> "paid", paidAt |-> t, paymentMethod |-> "card"],
          [status |-> "accepted", acceptedAt |-> t],
          [status |-> "rejected", notes |-> "Price too high"],
          [status |-> "expired", validUntil |-> t - 1]}

NoCall ==
  [n |-> 0, id |-> -1, updates |-> [status |-> "pending"], found |-> FALSE,
   retry |-> FALSE, staleStatus |-> "none"]

\* CustomerBot.step3_requestQuote: generate a quote and addQuote it.
Step3RequestQuote(serviceType, mockDistance) ==
  /\ Len(quotes) < MaxQuotes
  /\ LET vinData == [make |-> "Honda", year |-> 2023]
         r == DispatcherGenerateQuote("sr", vinData, serviceType, mockDistance, now)
     IN  /\ r.kind = "quote"
         /\ quotes' = Append(quotes, r.quote)
  /\ UNCHANGED <<now, lastCall, configVars, quoteVars, vinVars, plateVars, timerVars>>

\* updateQuote(id, updates).  lastCall notes the call: its number, its
\* arguments, whether it found the quote, whether it repeats the call before
\* it (the same request for the same quote; the caller stamps the dates of
\* the context anew), and the status the quote had when the request was
\* first made.
updateQuote(id, updates) ==
  LET i == FindQuote(quotes, id)
      again == /\ i # 0
               /\ lastCall.found
               /\ lastCall.id = id
               /\ DOMAIN lastCall.updates = DOMAIN updates
               /\ lastCall.updates.status = updates.status
  IN  /\ lastCall.n < MaxUpdates
      /\ IF i # 0
         THEN quotes' = [quotes EXCEPT ![i] = Assign(quotes[i], updates)]
         ELSE quotes' = quotes
      /\ lastCall' = [n |-> lastCall.n + 1, id |-> id, updates |-> updates,
                      found |-> i # 0,
                      retry |-> again,
                      staleStatus |-> IF again THEN lastCall.staleStatus
                                      ELSE IF i # 0 THEN quotes[i].status
                                      ELSE "none"]
      /\ UNCHANGED <<now, configVars, quoteVars, vinVars, plateVars, timerVars>>

\* Time passes between the calls.
Tick ==
  /\ now + ValiditySeconds + 1 <= MaxTicks * (ValiditySeconds + 1)
  /\ now' = now + ValiditySeconds + 1
  /\ UNCHANGED <<quotes, lastCall, configVars, quoteVars, vinVars, plateVars, timerVars>>

(***************************************************************************)
(* configRouter over configStorage.                                        *)
(*                                                                         *)
(* The Map is the sequence of its entries <<key, value>> in insertion      *)
(* order; a value is written as the string of its JSON form.               *)
(***************************************************************************)
DefaultEntries ==
  << <<"isProduction", "false">>,
     <<"enableChatbot", "true">>,
     <<"enableVINCheck", "true">>,
     <<"showScooterSupport", "true">>,
     <<"showMotorcycleSupport", "true">>,
     <<"defaultLaborRate", "95">>,
     <<"travelFeePerMile", "0.65">>,
     <<"minimumTravelFee", "15">>,
     <<"showVINDebug", "false">> >>

\* The keys and values the set procedure is called with.
SetKeys == {"isProduction", "defaultLaborRate", "customKey"}

SetValues == {"true", "120"}

MapHas(m, key) == \E i \in 1..Len(m) : m[i][1] = key

\* Map.prototype.set: a held key keeps its place, a new key goes last.
MapSet(m, key, value) ==
  IF MapHas(m, key)
  THEN [i \in 1..Len(m) |-> IF m[i][1] = key THEN <<key, value>> ELSE m[i]]
  ELSE Append(m, <<key, value>>)

\* Map.prototype.clear
MapClear(m) == <<>>

\* The reset body without clear(), over a store that keeps duplicates.
ResetStatementAppending(m, k) ==
  IF k = 0 THEN m ELSE Append(m, DefaultEntries[k])

\* The k-th statement of the reset handler's body: clear(), then the nine
\* set() calls.
ResetStatement(m, k) ==
  IF k = 0 THEN MapClear(m)
  ELSE MapSet(m, DefaultEntries[k][1], DefaultEntries[k][2])

RECURSIVE ResetFrom(_, _)
ResetFrom(m, k) ==
  IF k > Len(DefaultEntries) THEN m
  ELSE ResetFrom(ResetStatement(m, k), k + 1)

\* The whole body of the reset handler.
ResetTable(m) == ResetFrom(m, 0)

\* A handler that yields to the event loop between its statements.
HandlerMayStartAnytime == TRUE

\* The handlers are async functions whose bodies hold no await: a call runs
\* to its end before the event loop starts another handler.
HandlerMayStart == resetPc = 0

\* reset: clear()
ResetBegin ==
  /\ HandlerMayStart
  /\ configStorage' = ResetStatement(configStorage, 0)
  /\ resetPc' = 1
  /\ preTable' = configStorage
  /\ UNCHANGED <<lastRead, lastOp, storeVars, quoteVars, vinVars, plateVars, timerVars>>

\* reset: the next set() call, and the return after the last
ResetContinue ==
  /\ resetPc \in 1..Len(DefaultEntries)
  /\ configStorage' = ResetStatement(configStorage, resetPc)
  /\ IF resetPc = Len(DefaultEntries)
     THEN /\ resetPc' = 0
          /\ preTable' = configStorage'
          /\ lastOp' = "reset"
     ELSE /\ resetPc' = resetPc + 1
          /\ UNCHANGED <<preTable, lastOp>>
  /\ UNCHANGED <<lastRead, storeVars, quoteVars, vinVars, plateVars, timerVars>>

\* set({key, value})
ConfigSet(key, value) ==
  /\ HandlerMayStart
  /\ configStorage' = MapSet(configStorage, key, value)
  /\ preTable' = IF resetPc = 0 THEN configStorage' ELSE preTable
  /\ lastOp' = "set"
  /\ UNCHANGED <<resetPc, lastRead, storeVars, quoteVars, vinVars, plateVars, timerVars>>

\* getAll: Array.from(configStorage.entries())
ConfigGetAll ==
  /\ HandlerMayStart
  /\ lastRead' = [snapshot |-> configStorage,
                  op |-> lastOp,
                  before |-> preTable,
                  after |-> IF resetPc = 0 THEN configStorage ELSE ResetTable(preTable)]
  /\ UNCHANGED <<configStorage, resetPc, preTable, lastOp, storeVars, quoteVars, vinVars, plateVars, timerVars>>

(***************************************************************************)
(* The options generateSmartQuote is called with.                          *)
(***************************************************************************)
RequestedServiceTypes == ServiceTypes \cup {"motorcycle_oil_change"}

Urgencies == {"low", "medium", "high", "emergency"}

Diagnoses ==
  {<<>>,
   <<[confidence |-> "0.9", diagnosticSteps |-> 3, urgencyLevel |-> "medium",
      estimatedCost |-> <<[min |-> 75, max |-> 95]>>]>>,
   <<[confidence |-> "0.5", diagnosticSteps |-> 4, urgencyLevel |-> "emergency",
      estimatedCost |-> <<[min |-> 150, max |-> 500]>>]>>,
   <<[confidence |-> "low", diagnosticSteps |-> 2, urgencyLevel |-> "high",
      estimatedCost |-> <<>>]>>,
   <<[confidence |-> "high", diagnosticSteps |-> 4, urgencyLevel |-> "emergency",
      estimatedCost |-> <<>>]>>}

Vehicles ==
  {<<>>,
   <<[make |-> "Toyota", year |-> 2018, mileage |-> 85000]>>,
   <<[make |-> "BMW", year |-> 2013, mileage |-> 160000]>>,
   <<[make |-> "Unknown", year |-> 2005, mileage |-> 0]>>}

PartsChoices ==
  {<<>>,
   <<"brake pads", "brake fluid">>,
   <<"Oil Filter", "Synthetic Oil (5qt)">>,
   <<"Brake Pads (Front)", "brake fluid">>}

\* The whole miles Math.random() * 20 is drawn from.
MockDistances == {5, 15}

DiscountPercents == {0, 10, 150}

\* No distance is drawn for a request without a location.
OptionsSet ==
  {o \in [serviceType : RequestedServiceTypes,
          urgency : Urgencies,
          customLaborHours : {<<>>, <<0>>, <<3>>},
          aiDiagnosis : Diagnoses,
          vehicle : Vehicles,
          location : BOOLEAN,
          travelDistanceMiles : {<<>>, <<15>>},
          mockDistance : MockDistances,
          selectedParts : PartsChoices,
          discountPercent : DiscountPercents] :
     o.location \/ o.mockDistance = 5}

NoOptions == DispatcherOptions([make |-> "Honda", year |-> 2023], "oil-change", 5)

NoResult == [via |-> "none", out |-> [kind |-> "none"]]

\* A direct call of the calculator.
GenerateQuote ==
  /\ result = NoResult
  /\ result' = [via |-> "direct", out |-> generateSmartQuote("sr", options, now)]
  /\ UNCHANGED <<options, storeVars, configVars, vinVars, plateVars, timerVars>>

\* The same request made through MockQuoteDispatcher.generateQuote.
DispatchQuote ==
  /\ result = NoResult
  /\ Given(options.vehicle)
  /\ result' = [via |-> "dispatcher",
                out |-> DispatcherGenerateQuote("sr", The(options.vehicle),
                                                options.serviceType,
                                                options.mockDistance, now)]
  /\ UNCHANGED <<options, storeVars, configVars, vinVars, plateVars, timerVars>>

(***************************************************************************)
(* The VIN scanner: validateVin and generateFallbackVinData of              *)
(* src/vin-scan-validator-test.ts, MockVinScanner.decodeVin of              *)
(* src/customer-bot-test.ts.                                                *)
(*                                                                         *)
(* A VIN is the sequence of its characters, each a string of length one;   *)
(* NullVin stands for null handed over in place of a string.               *)
(***************************************************************************)
NullVin == <<"null">>

\* new Date().getFullYear() at time t; the model's time 0 is the first
\* second of CurrentYear.
YearSeconds == 365 * 24 * 60 * 60

getFullYear(t) == CurrentYear + (t \div YearSeconds)

\* The characters of the class [A-HJ-NPR-Z0-9].
VinRegexChars ==
  {"A", "B", "C", "D", "E", "F", "G", "H", "J", "K", "L", "M", "N", "P",
   "R", "S", "T", "U", "V", "W", "X", "Y", "Z", "0", "1", "2", "3", "4",
   "5", "6", "7", "8", "9"}

\* String.prototype.toUpperCase, on the characters the model draws.
UpperChar(c) ==
  CASE c = "a" -> "A"
    [] c = "b" -> "B"
    [] c = "i" -> "I"
    [] c = "o" -> "O"
    [] c = "q" -> "Q"
    [] OTHER -> c

toUpperCase(str) == [i \in 1..Len(str) |-> UpperChar(str[i])]

\* validateVin with the test made on the VIN as it was typed.
validateVinAsTyped(v, type) ==
  /\ \A i \in 1..Len(v) : v[i] \in VinRegexChars
  /\ IF type = "car" THEN Len(v) = 17 ELSE Len(v) >= 11 /\ Len(v) <= 17

\* validateVin: /^[A-HJ-NPR-Z0-9]{17}$/ for a car, {11,17} for the others,
\* tested on vin.toUpperCase().
validateVin(v, type) ==
  /\ \A i \in 1..Len(v) : toUpperCase(v)[i] \in VinRegexChars
  /\ IF type = "car" THEN Len(v) = 17 ELSE Len(v) >= 11 /\ Len(v) <= 17

\* The VIN the mock scanner knows.
MockVin == <<"1", "H", "G", "C", "M", "8", "2", "6", "3", "3", "A", "1", "2", "3", "4", "5", "6">>

\* MockVinScanner.decodeVin: the length test (vin.length throws for null),
\* then the known VIN or the fallback record.
decodeVin(v, type, t) ==
  IF v = NullVin /\ type \in {"motorcycle", "car"}
  THEN [kind |-> "TypeError"]
  ELSE IF type = "motorcycle" /\ (Len(v) < 11 \/ Len(v) > 17)
  THEN [kind |-> "Error", message |-> "Invalid motorcycle VIN length"]
  ELSE IF type = "car" /\ Len(v) # 17
  THEN [kind |-> "Error", message |-> "Invalid car VIN length"]
  ELSE IF v = MockVin
  THEN [kind |-> "VinData",
        data |-> [vin |-> v, make |-> "Honda", model |-> "CBR600RR",
                  year |-> 2023, vehicleType |-> "motorcycle"]]
  ELSE [kind |-> "VinData",
        data |-> [vin |-> v, make |-> "Unknown", model |-> "Unknown Model",
                  year |-> getFullYear(t), vehicleType |-> type]]

\* yearMap[yearChar] || year
yearMap(c, year) ==
  CASE c = "A" -> 2010
    [] c = "B" -> 2011
    [] c = "C" -> 2012
    [] c = "D" -> 2013
    [] c = "E" -> 2014
    [] c = "F" -> 2015
    [] c = "G" -> 2016
    [] c = "H" -> 2017
    [] c = "J" -> 2018
    [] c = "K" -> 2019
    [] c = "L" -> 2020
    [] c = "M" -> 2021
    [] c = "N" -> 2022
    [] c = "P" -> 2023
    [] c = "R" -> 2024
    [] c = "1" -> 2001
    [] c = "2" -> 2002
    [] c = "3" -> 2003
    [] c = "4" -> 2004
    [] c = "5" -> 2005
    [] c = "6" -> 2006
    [] c = "7" -> 2007
    [] c = "8" -> 2008
    [] c = "9" -> 2009
    [] OTHER -> year

\* substring(0, n)
Prefix(str, n) == SubSeq(str, 1, IF Len(str) < n THEN Len(str) ELSE n)

motorcycleMap ==
  {<<<<"1", "H", "D">>, "Harley-Davidson", "motorcycle">>,
   <<<<"J", "H", "2">>, "Honda", "motorcycle">>,
   <<<<"J", "H", "3">>, "Honda", "motorcycle">>,
   <<<<"J", "H", "M">>, "Honda", "motorcycle">>,
   <<<<"J", "K", "A">>, "Kawasaki", "motorcycle">>,
   <<<<"J", "K", "B">>, "Kawasaki", "motorcycle">>,
   <<<<"J", "S", "1">>, "Suzuki", "motorcycle">>,
   <<<<"J", "S", "2">>, "Suzuki", "motorcycle">>,
   <<<<"J", "Y", "A">>, "Yamaha", "motorcycle">>,
   <<<<"J", "Y", "B">>, "Yamaha", "motorcycle">>,
   <<<<"L", "5", "Y">>, "TaoTao", "scooter">>,
   <<<<"L", "6", "T">>, "Kymco", "scooter">>,
   <<<<"L", "V", "V">>, "Vespa", "scooter">>,
   <<<<"M", "E", "4">>, "KTM", "motorcycle">>,
   <<<<"Z", "A", "P">>, "Piaggio", "scooter">>,
   <<<<"V", "T", "H">>, "Triumph", "motorcycle">>,
   <<<<"W", "V", "B">>, "BMW", "motorcycle">>,
   <<<<"9", "3", "M">>, "Indian", "motorcycle">>,
   <<<<"5", "J", "6">>, "Yamaha", "scooter">>,
   <<<<"R", "F", "9">>, "Aprilia", "motorcycle">>,
   <<<<"R", "F", "B">>, "Vespa", "scooter">>,
   <<<<"Z", "D", "M">>, "Ducati", "motorcycle">>}

shortPrefixMap ==
  {<<<<"J", "H">>, "Honda", "motorcycle">>,
   <<<<"J", "K">>, "Kawasaki", "motorcycle">>,
   <<<<"J", "S">>, "Suzuki", "motorcycle">>,
   <<<<"J", "Y">>, "Yamaha", "motorcycle">>,
   <<<<"L", "5">>, "Chinese Manufacturer", "scooter">>,
   <<<<"L", "6">>, "Chinese Manufacturer", "scooter">>}

manufacturerMap ==
  {<<<<"1", "G", "1">>, "Chevrolet">>, <<<<"1", "G", "6">>, "Cadillac">>,
   <<<<"1", "G", "C">>, "Chevrolet">>, <<<<"1", "F", "A">>, "Ford">>,
   <<<<"1", "F", "B">>, "Ford">>, <<<<"1", "F", "C">>, "Ford">>,
   <<<<"1", "F", "D">>, "Ford">>, <<<<"1", "F", "T">>, "Ford">>,
   <<<<"1", "F", "U">>, "Ford">>, <<<<"1", "F", "V">>, "Ford">>,
   <<<<"1", "H", "G">>, "Honda">>, <<<<"1", "H", "T">>, "Honda">>,
   <<<<"1", "J", "4">>, "Jeep">>, <<<<"1", "J", "8">>, "Jeep">>,
   <<<<"1", "N", "4">>, "Nissan">>, <<<<"1", "N", "6">>, "Nissan">>,
   <<<<"2", "C", "3">>, "Chrysler">>, <<<<"2", "C", "4">>, "Chrysler">>,
   <<<<"2", "G", "1">>, "Chevrolet">>, <<<<"2", "G", "2">>, "Pontiac">>,
   <<<<"2", "T", "1">>, "Toyota">>, <<<<"2", "T", "2">>, "Toyota">>,
   <<<<"3", "F", "A">>, "Ford">>, <<<<"3", "F", "E">>, "Ford">>,
   <<<<"4", "F", "2">>, "Mazda">>, <<<<"4", "F", "4">>, "Mazda">>,
   <<<<"4", "T", "1">>, "Toyota">>, <<<<"4", "T", "3">>, "Toyota">>,
   <<<<"5", "N", "P">>, "Hyundai">>, <<<<"5", "T", "D">>, "Toyota">>,
   <<<<"J", "H", "4">>, "Acura">>, <<<<"J", "H", "M">>, "Honda">>,
   <<<<"J", "M", "1">>, "Mazda">>, <<<<"J", "M", "3">>, "Mazda">>,
   <<<<"J", "N", "1">>, "Nissan">>, <<<<"J", "N", "8">>, "Nissan">>,
   <<<<"J", "T", "2">>, "Toyota">>, <<<<"J", "T", "3">>, "Toyota">>,
   <<<<"J", "T", "D">>, "Toyota">>, <<<<"K", "M", "8">>, "Hyundai">>,
   <<<<"K", "N", "A">>, "Kia">>, <<<<"W", "B", "A">>, "BMW">>,
   <<<<"W", "B", "S">>, "BMW">>, <<<<"W", "D", "B">>, "Mercedes-Benz">>,
   <<<<"W", "D", "D">>, "Mercedes-Benz">>,
   <<<<"W", "V", "W">>, "Volkswagen">>, <<<<"W", "V", "1">>, "Volkswagen">>}

\* map[key]: the entry of the key, <<>> for undefined.
Lookup(map, key) ==
  IF \E e \in map : e[1] = key THEN <<CHOOSE e \in map : e[1] = key>> ELSE <<>>

\* The lookup that tries the two-character table first.
motorcycleLookupShortFirst(vinUpper, type) ==
  LET m3 == Lookup(motorcycleMap, Prefix(vinUpper, 3))
      m2 == Lookup(shortPrefixMap, Prefix(vinUpper, 2))
  IN  IF Given(m2) THEN [make |-> The(m2)[2], type |-> The(m2)[3]]
      ELSE IF Given(m3) THEN [make |-> The(m3)[2], type |-> The(m3)[3]]
      ELSE [make |-> "Unknown", type |-> type]

\* The lookup that takes the make of the entry and leaves the type as given.
motorcycleLookupKeepingType(vinUpper, type) ==
  LET m3 == Lookup(motorcycleMap, Prefix(vinUpper, 3))
      m2 == Lookup(shortPrefixMap, Prefix(vinUpper, 2))
  IN  IF Given(m3) THEN [make |-> The(m3)[2], type |-> type]
      ELSE IF Given(m2) THEN [make |-> The(m2)[2], type |-> type]
      ELSE [make |-> "Unknown", type |-> type]

\* The motorcycle and scooter branch: prefix3 in motorcycleMap, else prefix2
\* in shortPrefixMap; a hit sets make and vehicleType.
motorcycleLookup(vinUpper, type) ==
  LET m3 == Lookup(motorcycleMap, Prefix(vinUpper, 3))
      m2 == Lookup(shortPrefixMap, Prefix(vinUpper, 2))
  IN  IF Given(m3) THEN [make |-> The(m3)[2], type |-> The(m3)[3]]
      ELSE IF Given(m2) THEN [make |-> The(m2)[2], type |-> The(m2)[3]]
      ELSE [make |-> "Unknown", type |-> type]

\* The car branch: manufacturerMap[wmi] || 'Unknown'
carLookup(vinUpper, type) ==
  LET wmi == Lookup(manufacturerMap, Prefix(vinUpper, 3))
  IN  [make |-> IF Given(wmi) THEN The(wmi)[2] ELSE "Unknown", type |-> type]

\* generateFallbackVinData at time t: null.toUpperCase() throws and the catch
\* returns null.
generateFallbackVinData(v, type, t) ==
  IF v = NullVin THEN [kind |-> "null"]
  ELSE LET vinUpper == toUpperCase(v)
           year == IF Len(v) = 17 THEN yearMap(vinUpper[10], getFullYear(t))
                   ELSE getFullYear(t)
           found == IF type \in {"motorcycle", "scooter"}
                    THEN motorcycleLookup(vinUpper, type)
                    ELSE carLookup(vinUpper, type)
       IN  [kind |-> "VinData",
            data |-> [vin |-> vinUpper, make |-> found.make,
                      model |-> "Unknown Model", year |-> year,
                      vehicleType |-> found.type]]

VehicleTypes == {"car", "motorcycle", "scooter"}

\* The VINs of TEST_VINS the inputs are cut from.
BaseVins ==
  {<<"1", "H", "G", "B", "H", "4", "1", "J", "X", "M", "N", "1", "0", "9", "1", "8", "6">>,
   <<"J", "H", "2", "R", "C", "5", "0", "0", "6", "L", "M", "2", "0", "0", "0", "0", "1">>,
   <<"1", "H", "G", "C", "M", "8", "2", "6", "3", "3", "A", "1", "2", "3", "4", "5", "6">>,
   <<"Z", "A", "P", "C", "3", "1", "1", "0", "0">>,
   <<"5", "J", "6", "T", "C", "1", "2", "0", "0", "A">>,
   <<"L", "5", "Y", "C", "G", "A", "C", "B", "0", "A", "0", "0", "0", "0", "0", "0", "1">>}

VinLengths == {0, 9, 10, 11, 16, 17, 18}

\* The characters typed over a character of a VIN; "keep" leaves it.
TypedChars == {"keep", "O", "I", "Q", "o", "b", "@", "T", "0"}

\* The first n characters of base (with a digit after its end).
CutVin(base, n) == Prefix(base \o <<"7">>, n)

TypeOver(str, k, c) ==
  IF c = "keep" \/ k > Len(str) \/ k < 1 THEN str
  ELSE [str EXCEPT ![k] = c]

\* A base VIN typed with a blank before it or after it.
PaddedVins ==
  {<<" ">> \o base : base \in BaseVins} \cup {base \o <<" ">> : base \in BaseVins}

\* A cut of a base VIN with its first, third, tenth or last character typed
\* over; a padded base VIN; null.
VinInputs ==
  UNION {{TypeOver(CutVin(base, n), k, c) : k \in {1, 3, 10, n}, c \in TypedChars} :
           base \in BaseVins, n \in VinLengths}
    \cup PaddedVins \cup {NullVin}

\* at: the time of the call.
NoVinResult == [via |-> "none", at |-> 0, out |-> [kind |-> "none"]]

\* validateVin(vin, vehicleType)
ValidateVin ==
  /\ vinResult = NoVinResult
  /\ vinResult' = [via |-> "validateVin", at |-> now,
                   out |-> IF vin = NullVin THEN [kind |-> "TypeError"]
                           ELSE [kind |-> "boolean",
                                 value |-> validateVin(vin, vehicleType)]]
  /\ UNCHANGED <<vin, vehicleType, storeVars, configVars, quoteVars, plateVars,
               timerVars>>

\* await MockVinScanner.decodeVin(vin, vehicleType)
DecodeVin ==
  /\ vinResult = NoVinResult
  /\ vinResult' = [via |-> "decodeVin", at |-> now,
                   out |-> decodeVin(vin, vehicleType, now)]
  /\ UNCHANGED <<vin, vehicleType, storeVars, configVars, quoteVars, plateVars,
               timerVars>>

\* generateFallbackVinData(vin, vehicleType)
GenerateFallbackVinData ==
  /\ vinResult = NoVinResult
  /\ vinResult' = [via |-> "generateFallbackVinData", at |-> now,
                   out |-> generateFallbackVinData(vin, vehicleType, now)]
  /\ UNCHANGED <<vin, vehicleType, storeVars, configVars, quoteVars, plateVars,
               timerVars>>

\* A calendar year passes.
YearTick ==
  /\ now + YearSeconds <= MaxYears * YearSeconds
  /\ now' = now + YearSeconds
  /\ UNCHANGED <<quotes, lastCall, configVars, quoteVars, vinVars, plateVars, timerVars>>

(***************************************************************************)
(* The plate lookup: validatePlateFormat and decodePlateToVIN of            *)
(* utils/vin/fromPlate, which src/vin-scan-validator-test.ts imports and    *)
(* calls.  The module is not among the sources; the two functions follow    *)
(* the specification of decodePlate, over the plates of TEST_PLATES.        *)
(***************************************************************************)
PlateChars ==
  {"A", "B", "C", "D", "E", "F", "G", "H", "I", "J", "K", "L", "M", "N",
   "O", "P", "Q", "R", "S", "T", "U", "V", "W", "X", "Y", "Z", "0", "1",
   "2", "3", "4", "5", "6", "7", "8", "9"}

\* The jurisdictions whose plates may hold one blank.
SpaceJurisdictions == {"NY", "TX"}

\* Length 2 to 8, letters and digits, one blank where the jurisdiction
\* allows it.
validatePlateFormat(p, state) ==
  LET blanks == {i \in 1..Len(p) : p[i] = " "}
  IN  /\ Len(p) >= 2 /\ Len(p) <= 8
      /\ \A i \in 1..Len(p) : p[i] \in PlateChars \cup {" "}
      /\ Cardinality(blanks) <= (IF state \in SpaceJurisdictions THEN 1 ELSE 0)

\* The known registry: TEST_PLATES.valid.
PlateRegistry ==
  {[plate |-> <<"A", "B", "C", "1", "2", "3">>, state |-> "CA",
    vin |-> "WVWZZZ3BZWE689725", make |-> "Volkswagen", model |-> "Passat",
    year |-> 2008],
   [plate |-> <<"X", "Y", "Z", "7", "8", "9">>, state |-> "NY",
    vin |-> "1HGBH41JXMN109186", make |-> "Honda", model |-> "Civic",
    year |-> 2021],
   [plate |-> <<"D", "E", "F", "4", "5", "6">>, state |-> "TX",
    vin |-> "1FTFW1ET5DFC10312", make |-> "Ford", model |-> "F-150",
    year |-> 2013],
   [plate |-> <<"G", "H", "I", "0", "1", "2">>, state |-> "FL",
    vin |-> "1G1ZT53806F109149", make |-> "Chevrolet", model |-> "Malibu",
    year |-> 2006],
   [plate |-> <<"J", "K", "L", "3", "4", "5">>, state |-> "CA",
    vin |-> "JTDKN3DU8A0123456", make |-> "Toyota", model |-> "Prius",
    year |-> 2010]}

RegistryHits(p, state) ==
  {e \in PlateRegistry : e.plate = p /\ e.state = state}

\* The lookup that reports a malformed plate as a plate it does not know.
decodePlateToVINWithoutFormatError(p, state) ==
  IF validatePlateFormat(p, state) /\ RegistryHits(p, state) # {}
  THEN LET e == CHOOSE e \in RegistryHits(p, state) : TRUE
       IN  [kind |-> "found", vin |-> <<e.vin>>, make |-> e.make,
            model |-> e.model, year |-> e.year, confidence |-> "high",
            error |-> <<>>]
  ELSE [kind |-> "notFound", vin |-> <<>>, make |-> "", model |-> "",
        year |-> 0, confidence |-> "low",
        error |-> <<"Vehicle information not found">>]

\* decodePlateToVIN: the format first, then the registry.
decodePlateToVIN(p, state) ==
  IF ~validatePlateFormat(p, state)
  THEN [kind |-> "formatError", vin |-> <<>>, make |-> "", model |-> "",
        year |-> 0, confidence |-> "none",
        error |-> <<"Invalid license plate format">>]
  ELSE IF RegistryHits(p, state) # {}
  THEN LET e == CHOOSE e \in RegistryHits(p, state) : TRUE
       IN  [kind |-> "found", vin |-> <<e.vin>>, make |-> e.make,
            model |-> e.model, year |-> e.year, confidence |-> "high",
            error |-> <<>>]
  ELSE [kind |-> "notFound", vin |-> <<>>, make |-> "", model |-> "",
        year |-> 0, confidence |-> "low",
        error |-> <<"Vehicle information not found">>]

\* The plates of TEST_PLATES and of testErrorHandling.
PlateInputs ==
  {<<"A", "B", "C", "1", "2", "3">>,
   <<"X", "Y", "Z", "7", "8", "9">>,
   <<"D", "E", "F", "4", "5", "6">>,
   <<"G", "H", "I", "0", "1", "2">>,
   <<"J", "K", "L", "3", "4", "5">>,
   <<"U", "N", "K", "N", "O", "W", "N", "1">>,
   <<"T", "E", "S", "T", "1", "2", "3">>,
   <<"S", "A", "M", "P", "L", "E", "1">>,
   <<"X">>,
   <<"T", "O", "O", "L", "O", "N", "G", "P", "L", "A", "T", "E">>,
   <<"A", "B", "C", "@", "1", "2", "3">>,
   <<"A", "B", "C", " ", "1", "2", "3">>,
   <<>>,
   <<"!", "@", "#", "$", "%", "^", "&">>}

Jurisdictions == {"CA", "NY", "TX", "FL"}

NoPlateResult == [via |-> "none", out |-> [kind |-> "none"]]

\* validatePlateFormat(plate, state)
ValidatePlateFormat ==
  /\ plateResult = NoPlateResult
  /\ plateResult' = [via |-> "validatePlateFormat",
                     out |-> [kind |-> "boolean",
                              value |-> validatePlateFormat(plate, jurisdiction)]]
  /\ UNCHANGED <<plate, jurisdiction, storeVars, configVars, quoteVars, vinVars,
                 timerVars>>

\* await decodePlateToVIN(plate, state)
DecodePlateToVIN ==
  /\ plateResult = NoPlateResult
  /\ plateResult' = [via |-> "decodePlateToVIN",
                     out |-> decodePlateToVIN(plate, jurisdiction)]
  /\ UNCHANGED <<plate, jurisdiction, storeVars, configVars, quoteVars, vinVars,
                 timerVars>>

(***************************************************************************)
(* MockWorkTimer of src/unnamed/part_006 (and, the same code,               *)
(* src/mechanic-workflow-test.js).                                          *)
(***************************************************************************)
IdleTimeData ==
  [jobId |-> "job", startTime |-> <<>>, endTime |-> <<>>, totalSeconds |-> 0,
   status |-> "idle", pausedDuration |-> 0]

\* startTimer()
startTimer ==
  /\ IF timeData.status = "running"
     THEN UNCHANGED <<timeData, intervalId>>
     ELSE /\ timeData' = [timeData EXCEPT
                            !.startTime = IF Given(@) THEN @ ELSE <<now>>,
                            !.status = "running"]
          /\ intervalId' = TRUE
  /\ UNCHANGED <<currentTime, storeVars, configVars, quoteVars, vinVars,
                 plateVars>>

\* The interval set by startTimer fires: a second has passed.
IntervalFires ==
  /\ intervalId
  /\ timeData.totalSeconds + currentTime < MaxTimerSeconds
  /\ currentTime' = currentTime + 1
  /\ now' = now + 1
  /\ UNCHANGED <<timeData, intervalId, quotes, lastCall, configVars, quoteVars,
                 vinVars, plateVars>>

\* pauseTimer()
pauseTimer ==
  /\ IF timeData.status # "running"
     THEN UNCHANGED <<timeData, currentTime, intervalId>>
     ELSE /\ intervalId' = FALSE
          /\ timeData' = [timeData EXCEPT
                            !.totalSeconds = @ + currentTime,
                            !.status = "paused"]
          /\ currentTime' = 0
  /\ UNCHANGED <<storeVars, configVars, quoteVars, vinVars, plateVars>>

\* completeTimer(): currentTime is left as it is.
completeTimer ==
  /\ timeData.totalSeconds + currentTime <= MaxTimerSeconds
  /\ intervalId' = FALSE
  /\ timeData' = [timeData EXCEPT
                    !.endTime = <<now>>,
                    !.totalSeconds = @ + currentTime,
                    !.status = "completed"]
  /\ UNCHANGED <<currentTime, storeVars, configVars, quoteVars, vinVars,
                 plateVars>>

(***************************************************************************)
(* The specifications.                                                     *)
(***************************************************************************)
InitStore ==
  /\ now = 0
  /\ quotes = <<>>
  /\ lastCall = NoCall

InitConfig ==
  /\ configStorage = DefaultEntries
  /\ resetPc = 0
  /\ preTable = DefaultEntries
  /\ lastRead = [snapshot |-> DefaultEntries, op |-> "none",
                 before |-> DefaultEntries, after |-> DefaultEntries]
  /\ lastOp = "none"

InitQuote ==
  /\ options = NoOptions
  /\ result = NoResult

\* The scan of the customer flow: the test VIN, typed as a motorcycle's.
InitVin ==
  /\ vin = MockVin
  /\ vehicleType = "motorcycle"
  /\ vinResult = NoVinResult

\* The first known plate of the lookup's tests.
InitPlate ==
  /\ plate = <<"A", "B", "C", "1", "2", "3">>
  /\ jurisdiction = "CA"
  /\ plateResult = NoPlateResult

\* new MockWorkTimer(jobId)
InitTimer ==
  /\ timeData = IdleTimeData
  /\ currentTime = 0
  /\ intervalId = FALSE

Init ==
  InitStore /\ InitConfig /\ InitQuote /\ InitVin /\ InitPlate /\ InitTimer

StoreNext ==
  \/ \E serviceType \in {"oil-change", "motorcycle_oil_change"}, d \in {15} :
       Step3RequestQuote(serviceType, d)
  \/ \E id \in {quotes[i].id : i \in 1..Len(quotes)} \cup {-1},
        updates \in UpdateShapes(now) :
       updateQuote(id, updates)
  \/ Tick

StoreSpec == Init /\ [][StoreNext]_vars

ConfigNext ==
  \/ ResetBegin
  \/ ResetContinue
  \/ \E key \in SetKeys, value \in SetValues : ConfigSet(key, value)
  \/ ConfigGetAll

ConfigSpec == Init /\ [][ConfigNext]_vars

QuoteInit ==
  /\ InitStore
  /\ InitConfig
  /\ InitVin
  /\ InitPlate
  /\ InitTimer
  /\ options \in OptionsSet
  /\ result = NoResult

QuoteNext ==
  \/ GenerateQuote
  \/ DispatchQuote

QuoteSpec == QuoteInit /\ [][QuoteNext]_vars

VinInit ==
  /\ InitStore
  /\ InitConfig
  /\ InitQuote
  /\ InitPlate
  /\ InitTimer
  /\ vin \in VinInputs
  /\ vehicleType \in VehicleTypes
  /\ vinResult = NoVinResult

VinNext ==
  \/ ValidateVin
  \/ DecodeVin
  \/ GenerateFallbackVinData
  \/ YearTick

VinSpec == VinInit /\ [][VinNext]_vars

PlateInit ==
  /\ InitStore
  /\ InitConfig
  /\ InitQuote
  /\ InitVin
  /\ InitTimer
  /\ plate \in PlateInputs
  /\ jurisdiction \in Jurisdictions
  /\ plateResult = NoPlateResult

PlateNext ==
  \/ ValidatePlateFormat
  \/ DecodePlateToVIN

PlateSpec == PlateInit /\ [][PlateNext]_vars

TimerNext ==
  \/ startTimer
  \/ IntervalFires
  \/ pauseTimer
  \/ completeTimer

TimerSpec == Init /\ [][TimerNext]_vars

Next ==
  StoreNext \/ ConfigNext \/ QuoteNext \/ VinNext \/ PlateNext \/ TimerNext

Spec == Init /\ [][Next]_vars

(***************************************************************************)
(* The quote lifecycle, as the store applies it.                           *)
(***************************************************************************)
TerminalStatuses == {"paid", "rejected", "expired", "cancelled"}

AllowedTransitions ==
  {<<"pending", "accepted">>, <<"pending", "rejected">>, <<"pending", "expired">>,
   <<"pending", "cancelled">>, <<"accepted", "deposit_paid">>,
   <<"accepted", "paid">>, <<"accepted", "cancelled">>,
   <<"deposit_paid", "paid">>, <<"deposit_paid", "cancelled">>}

\* This step is an updateQuote call that found its quote.
CallApplied == lastCall'.n # lastCall.n /\ lastCall'.found

\* The quote the call of this step is about, before the call.
CallTarget == quotes[FindQuote(quotes, lastCall'.id)]

\* C1: once a quote's status is paid, rejected, expired or cancelled, no
\* transition request changes its status or any of its fields.
C1_TerminalQuoteNeverChanges ==
  [][\A i \in 1..Len(quotes) :
       quotes[i].status \in TerminalStatuses => quotes'[i] = quotes[i]]_vars

\* C2: a transition request succeeds only for one of the nine listed pairs
\* (status, newStatus); a request for paid on a pending quote fails, also with
\* paymentMethod "card".
C2_OnlyListedTransitionsSucceed ==
  [][CallApplied =>
       <<CallTarget.status, lastCall'.updates.status>> \in AllowedTransitions]_vars

\* C3: a transition to paid whose context carries no paymentMethod fails.
C3_PaidNeedsPaymentMethod ==
  (lastCall.found /\ lastCall.updates.status = "paid")
    => "paymentMethod" \in DOMAIN lastCall.updates

\* C4: a transition of a pending quote to expired succeeds if and only if
\* the current time is strictly later than the quote's validUntil.
C4_ExpireOnlyAfterValidity ==
  [][(/\ CallApplied
      /\ CallTarget.status = "pending"
      /\ lastCall'.updates.status = "expired")
       => (quotes'[FindQuote(quotes, lastCall'.id)].status = "expired"
             <=> now > CallTarget.validUntil)]_vars

\* C5: a transition to rejected whose context carries no notes fails.
C5_RejectedNeedsNotes ==
  (lastCall.found /\ lastCall.updates.status = "rejected")
    => "notes" \in DOMAIN lastCall.updates

\* C6: a transition never modifies the quote it is given: after any call the
\* quote object has the status and the fields it had before the call.
C6_TransitionLeavesInputQuote ==
  [][\A i \in 1..Len(quotes) : quotes'[i] = quotes[i]]_vars

C9_ResetIsIdempotent ==
  /\ ResetTable(ResetTable(configStorage)) = ResetTable(configStorage)
  /\ (lastOp = "reset" /\ resetPc = 0) => ResetTable(configStorage) = configStorage

\* reset ran to its end on a table that held a key the defaults do not hold.
C9_ResetDroppedCustomKey ==
  /\ lastOp = "reset"
  /\ resetPc = 0
  /\ MapHas(lastRead.snapshot, "customKey")
  /\ ~MapHas(configStorage, "customKey")

(***************************************************************************)
(* The quote calculator.                                                   *)
(***************************************************************************)
\* C10: generateQuote returns a quote for every requested service type; for
\* one the pricing table does not hold it prices the quote from the
\* oil_change entry, and it does not throw.
C10_QuoteForEveryServiceType ==
  result.via # "none"
    => /\ result.out.kind = "quote"
       /\ (result.via = "direct" /\ PricingMissing(options))
            => result.out.quote.laborCost
                 = laborCost(options, SERVICE_PRICING["oil_change"])

\* A direct call of the calculator returned a quote.
DirectQuote == result.via = "direct" /\ result.out.kind = "quote"

\* Another call with the same options, asking for urgency u and drawing the
\* distance d where the options hold a location.
QuoteAgain(u, d) ==
  generateSmartQuote("sr",
                     [options EXCEPT !.urgency = u,
                                     !.mockDistance =
                                        IF options.location THEN d ELSE @],
                     now).quote

UrgencyRank(u) ==
  CASE u = "low" -> 1
    [] u = "medium" -> 2
    [] u = "high" -> 3
    [] u = "emergency" -> 4

FracEq(x, n, d) == x[1] * d = n * x[2]

\* C11: generateQuote is monotonic in urgency: with the service type, the
\* vehicle, the diagnosis, the location, the parts and the discount fixed,
\* totalCost(emergency) >= totalCost(high) >= totalCost(medium) >=
\* totalCost(low).
C11_TotalCostMonotonicInUrgency ==
  DirectQuote
    => \A u \in Urgencies, d \in MockDistances :
         UrgencyRank(u) >= UrgencyRank(options.urgency)
           => QuoteAgain(u, d).totalCost >= result.out.quote.totalCost

\* C12: for every input generateQuote accepts, any discountPercent included,
\* laborCost, partsCost, travelCost and totalCost of the returned quote are
\* greater than or equal to zero.
C12_NoNegativeCost ==
  DirectQuote
    => /\ result.out.quote.laborCost >= 0
       /\ result.out.quote.partsCost[1] >= 0
       /\ result.out.quote.travelCost >= 0
       /\ result.out.quote.totalCost >= 0

\* C13: with the clock fixed, two generateQuote calls with identical options
\* return quotes with identical laborCost, partsCost, travelCost, totalCost
\* and estimated duration.
C13_SameOptionsSameQuote ==
  DirectQuote
    => \A d \in MockDistances :
         LET q1 == result.out.quote
             q2 == QuoteAgain(options.urgency, d)
         IN  /\ q2.laborCost = q1.laborCost
             /\ q2.partsCost = q1.partsCost
             /\ q2.travelCost = q1.travelCost
             /\ q2.totalCost = q1.totalCost
             /\ q2.estimatedDuration = q1.estimatedDuration

\* C14: when the diagnosis has urgencyLevel emergency, the factor by which
\* generateQuote multiplies the pricing entry's laborRate is at least 1.5,
\* whatever the urgency option is.
C14_EmergencyDiagnosisRateFactor ==
  (/\ DirectQuote
   /\ Given(options.aiDiagnosis)
   /\ The(options.aiDiagnosis).urgencyLevel = "emergency")
    => LET pricing == SERVICE_PRICING[options.serviceType]
           r == laborRate(options, pricing)
       IN  2 * r[1] >= 3 * pricing.laborRate * r[2]

\* The diagnostic confidence is above 0.8, or named high.
HighConfidence(d) == d.confidence \in {"0.9", "high"}

\* The diagnostic confidence is below 0.6, or named low.
LowConfidence(d) == d.confidence \in {"0.5", "low"}

\* C15: with a diagnosis supplied at most one diagnostic factor is applied to
\* laborHours: a high-confidence diagnosis gets only the 0.9 factor, a
\* low-confidence or more-than-3-step diagnosis gets the 1.2 factor, and no
\* laborHours is multiplied by both 1.2 and 0.9.
C15_OneDiagnosticFactor ==
  (DirectQuote /\ Given(options.aiDiagnosis))
    => LET d == The(options.aiDiagnosis)
           f == DiagnosisHours(options, Frac(1, 1))
       IN  /\ HighConfidence(d) => FracEq(f, 9, 10)
           /\ (~HighConfidence(d) /\ (LowConfidence(d) \/ d.diagnosticSteps > 3))
                => FracEq(f, 6, 5)
           /\ ~FracEq(f, 27, 25)

\* The distance a request supplies: the travel distance handed over, else
\* the distance to the location.
SuppliedDistance(o) ==
  IF Given(o.travelDistanceMiles) THEN The(o.travelDistanceMiles)
  ELSE o.mockDistance

\* C16: travelCost is 0 when neither a location nor a travel distance is
\* supplied, and otherwise 25 plus 2 for every mile of the supplied distance
\* beyond 10 miles.
C16_TravelCostFromSuppliedDistance ==
  DirectQuote
    => result.out.quote.travelCost =
         IF ~options.location /\ ~Given(options.travelDistanceMiles) THEN 0
         ELSE IF SuppliedDistance(options) > 10
         THEN 25 + 2 * (SuppliedDistance(options) - 10)
         ELSE 25

\* The labor hours of the formula: customLaborHours whenever it is supplied,
\* else estimatedHours, times the diagnostic factor, one age factor and the
\* mileage factor.
FormulaLaborHours(o, pricing) ==
  LET h0 == IF Given(o.customLaborHours) THEN Frac(The(o.customLaborHours), 1)
            ELSE pricing.estimatedHours
      h1 == DiagnosisHours(o, h0)
      age == IF Given(o.vehicle) THEN CurrentYear - The(o.vehicle).year ELSE 0
      h2 == IF age > 15 THEN Times(h1, 13, 10)
            ELSE IF age > 10 THEN Times(h1, 23, 20)
            ELSE h1
  IN  IF Given(o.vehicle) /\ The(o.vehicle).mileage > 150000
      THEN Times(h2, 11, 10) ELSE h2

\* C17: laborCost = round(laborHours * adjustedLaborRate), laborHours being
\* customLaborHours whenever supplied (else estimatedHours) times the
\* diagnostic, age and mileage factors, and adjustedLaborRate being laborRate
\* times the urgency multiplier.
C17_LaborCostFormula ==
  DirectQuote
    => LET pricing == SERVICE_PRICING[options.serviceType]
           h == FormulaLaborHours(options, pricing)
           m == urgencyMultipliers(options.urgency)
       IN  result.out.quote.laborCost =
             MathRound(Times(h, pricing.laborRate * m[1], m[2]))

\* The prices of the names that match an entry of commonParts, summed.
RECURSIVE MatchingPricesSum(_, _)
MatchingPricesSum(pricing, names) ==
  IF names = <<>> THEN 0
  ELSE LET hit == {i \in 1..Len(pricing.commonParts) :
                     pricing.commonParts[i].name = Head(names)}
       IN  (IF hit = {} THEN 0
            ELSE pricing.commonParts[CHOOSE i \in hit : \A j \in hit : i <= j].price)
             + MatchingPricesSum(pricing, Tail(names))

VinAccepted ==
  \/ /\ vinResult.via = "validateVin"
     /\ vinResult.out.kind = "boolean"
     /\ vinResult.out.value
  \/ /\ vinResult.via \in {"decodeVin", "generateFallbackVinData"}
     /\ vinResult.out.kind = "VinData"

\* C19: for every VIN containing I, O or Q, decodeVin returns InvalidFormat,
\* whatever the VIN's length and the hinted class.
C19_LettersIOQRejected ==
  (vinResult.via # "none" /\ \E i \in 1..Len(vin) : vin[i] \in {"I", "O", "Q"})
    => ~VinAccepted

\* 17 characters, each a digit or a letter other than I, O, Q.
ValidCarVin(v) ==
  Len(v) = 17 /\ \A i \in 1..Len(v) : UpperChar(v[i]) \in VinRegexChars

\* C20: for every syntactically valid 17-character car VIN (17 characters,
\* each a digit or a letter other than I, O, Q), decodeVin never returns
\* InvalidFormat.
C20_ValidCarVinAccepted ==
  (vinResult.via # "none" /\ vehicleType = "car" /\ ValidCarVin(vin))
    => VinAccepted

\* A well-formed car VIN typed with a lower-case letter passed validateVin.
C20_LowerCaseCarVinValidated ==
  /\ vinResult.via = "validateVin"
  /\ vehicleType = "car"
  /\ ValidCarVin(vin)
  /\ vin[17] = "b"
  /\ vinResult.out.value

\* A decoder returned.
Decoded == vinResult.via \in {"decodeVin", "generateFallbackVinData"}

\* The length breaks the rule of the hinted class: 17 for a car, 9 to 17 for
\* a motorcycle or a scooter.
BreaksLengthRule(v, type) ==
  IF type = "car" THEN Len(v) # 17 ELSE Len(v) < 9 \/ Len(v) > 17

\* C21: decodeVin on an empty or null VIN, or on a VIN whose length breaks
\* the rule of the hinted class, returns InvalidFormat and never a
\* VehicleIdentity, not even one with make "Unknown" and the default year.
C21_MalformedVinNeverDecoded ==
  (/\ Decoded
   /\ (vin = NullVin \/ vin = <<>> \/ BreaksLengthRule(vin, vehicleType)))
    => vinResult.out.kind # "VinData"

\* C22: with hinted class motorcycle or scooter, decodeVin accepts every VIN
\* of 9 to 17 characters made of digits and letters other than I, O, Q; the
\* 9- and 10-character VINs ZAPC31100 and 5J6TC1200A are accepted.
C22_ShortTwoWheelerVinAccepted ==
  (/\ vinResult.via # "none"
   /\ vehicleType \in {"motorcycle", "scooter"}
   /\ vin # NullVin
   /\ Len(vin) >= 9 /\ Len(vin) <= 17
   /\ \A i \in 1..Len(vin) : UpperChar(vin[i]) \in VinRegexChars)
    => VinAccepted

\* The entry of the motorcycle/scooter table for the first three characters.
TableEntry(v) == Lookup(motorcycleMap, Prefix(toUpperCase(v), 3))

YearLetters ==
  <<"A", "B", "C", "D", "E", "F", "G", "H", "J", "K", "L", "M", "N", "P",
    "R", "S", "T", "V", "W", "X", "Y">>

YearDigits == <<"1", "2", "3", "4", "5", "6", "7", "8", "9">>

IndexIn(seq, c) == CHOOSE i \in 1..Len(seq) : seq[i] = c

\* C24: for a 17-character car VIN the year comes from the 10th character:
\* digits 1..9 give 2001..2009, the letters A..Y without I, O, Q, U give
\* 2010..2030 (1HGCM82633A123456 with class car gives Honda, 2003); a VIN
\* that is not 17 characters long gets the current calendar year.
C24_YearFromTenthCharacter ==
  (Decoded /\ vehicleType = "car" /\ vinResult.out.kind = "VinData")
    => LET c == UpperChar(vin[10])
           range(seq) == {seq[i] : i \in 1..Len(seq)}
       IN  /\ (Len(vin) = 17 /\ c \in range(YearDigits))
                => vinResult.out.data.year = 2000 + IndexIn(YearDigits, c)
           /\ (Len(vin) = 17 /\ c \in range(YearLetters))
                => vinResult.out.data.year = 2009 + IndexIn(YearLetters, c)
           /\ Len(vin) # 17
                => vinResult.out.data.year = getFullYear(vinResult.at)
           /\ vin = MockVin => vinResult.out.data.make = "Honda"

\* C25: decodeVin called twice with the same VIN and the same hint yields
\* identical values (make, model, year, vehicleClass), whenever the two calls
\* are made.
C25_SameVinSameIdentity ==
  /\ vinResult.via = "decodeVin"
       => decodeVin(vin, vehicleType, now) = vinResult.out
  /\ vinResult.via = "generateFallbackVinData"
       => generateFallbackVinData(vin, vehicleType, now) = vinResult.out

\* The table the three-character lookup of the hinted class uses.
PrimaryTable(type) ==
  IF type \in {"motorcycle", "scooter"} THEN motorcycleMap ELSE manufacturerMap

\* The make of the three-character entry, else of the two-character entry
\* when the secondary table is consulted, else "Unknown".
MakeByPrefix(v, type, secondary) ==
  LET e3 == Lookup(PrimaryTable(type), Prefix(toUpperCase(v), 3))
      e2 == Lookup(shortPrefixMap, Prefix(toUpperCase(v), 2))
  IN  IF Given(e3) THEN The(e3)[2]
      ELSE IF secondary /\ Given(e2) THEN The(e2)[2]
      ELSE "Unknown"

RECURSIVE TrimStart(_)
TrimStart(str) ==
  IF str # <<>> /\ Head(str) = " " THEN TrimStart(Tail(str)) ELSE str

RECURSIVE TrimEnd(_)
TrimEnd(str) ==
  IF str # <<>> /\ str[Len(str)] = " "
  THEN TrimEnd(SubSeq(str, 1, Len(str) - 1)) ELSE str

\* The VIN trimmed and uppercased.
Normalized(v) == toUpperCase(TrimEnd(TrimStart(v)))

\* C27: decodeVin gives the same outcome for a VIN and for the same VIN
\* written with leading or trailing whitespace or with lower-case letters.
C27_TrimmedAndUppercased ==
  vin # NullVin
    => /\ (vinResult.via = "validateVin")
            => vinResult.out.value = validateVin(Normalized(vin), vehicleType)
       /\ (vinResult.via = "decodeVin")
            => vinResult.out
                 = decodeVin(Normalized(vin), vehicleType, vinResult.at)
       /\ (vinResult.via = "generateFallbackVinData")
            => vinResult.out
                 = generateFallbackVinData(Normalized(vin), vehicleType,
                                           vinResult.at)

(***************************************************************************)
(* The plate lookup.                                                       *)
(***************************************************************************)
\* The plate breaks the format rule of its jurisdiction.
Malformed(p, state) ==
  \/ Len(p) < 2
  \/ Len(p) > 8
  \/ \E i \in 1..Len(p) : p[i] \notin PlateChars /\ p[i] # " "
  \/ \E i, j \in 1..Len(p) : i # j /\ p[i] = " " /\ p[j] = " "
  \/ state \notin SpaceJurisdictions /\ \E i \in 1..Len(p) : p[i] = " "

\* C28: decodePlate checks the format before the registry lookup and reports
\* a malformed plate as a format error, which differs from the result for a
\* well-formed plate that is not in the registry (confidence "low", an error
\* and no VIN).
C28_MalformedPlateIsFormatError ==
  plateResult.via = "decodePlateToVIN"
    => /\ Malformed(plate, jurisdiction)
            => /\ plateResult.out.kind = "formatError"
               /\ plateResult.out.confidence # "low"
               /\ ~Given(plateResult.out.vin)
       /\ (~Malformed(plate, jurisdiction)
             /\ RegistryHits(plate, jurisdiction) = {})
            => /\ plateResult.out.kind = "notFound"
               /\ plateResult.out.confidence = "low"
               /\ Given(plateResult.out.error)
               /\ ~Given(plateResult.out.vin)

\* The plate ABC@123 was reported as a format error.
C28_MalformedPlateReported ==
  /\ plateResult.via = "decodePlateToVIN"
  /\ plate = <<"A", "B", "C", "@", "1", "2", "3">>
  /\ plateResult.out.kind = "formatError"

(***************************************************************************)
(* The quote ids.                                                          *)
(***************************************************************************)
\* C29: any two quotes produced by separate quote-generation calls have
\* different ids, also when the calls happen within the same millisecond, so
\* an update by id reaches exactly the intended quote.
C29_QuoteIdsDiffer ==
  \A i, j \in 1..Len(quotes) : i # j => quotes[i].id # quotes[j].id

(***************************************************************************)
(* The work timer.                                                         *)
(***************************************************************************)
\* C30: a completed work timer stays completed: after completeTimer no
\* startTimer, pauseTimer or completeTimer call changes its status away from
\* completed or changes its totalSeconds.
C30_CompletedTimerStays ==
  [][timeData.status = "completed"
       => /\ timeData'.status = "completed"
          /\ timeData'.totalSeconds = timeData.totalSeconds]_vars

====
